---- MODULE Spec2Model ----
(***************************************************************************)
(* Model of redash/models/parameterized_query.py: the ParameterizedQuery   *)
(* controller (apply, _valid, missing_params, text), resolve_parameters    *)
(* with the dynamic date macros, the list joiner and the placeholder       *)
(* extractor.                                                              *)
(*                                                                         *)
(* Python values are tagged records: Str(s), Num(n), List(l) (a sequence   *)
(* of strings) and Dict(d) (a function from inner keys to strings).  A     *)
(* Python dict keyed by parameter names is a function whose DOMAIN is the  *)
(* set of its keys; the empty dict is << >>.  Strings are TLA+ strings;    *)
(* what a library call decides from a string's characters (startswith,     *)
(* float, dateutil's parse, a regex match) is given for the strings the    *)
(* callers of the model supply.  A call that may raise returns the name    *)
(* of the exception next to its value.                                     *)
(***************************************************************************)
EXTENDS Integers, Sequences, FiniteSets, TLC

VARIABLES
    template,         \* self.template: the parse tree of the template
    schema,           \* self.schema: sequence of parameter definitions
    parameters,       \* self.parameters: the cumulative raw parameter map
    resolved_params,  \* self.resolved_params
    query,            \* self.query: the rendered text (property text)
    store,            \* the external Query table read by _load_result
    today,            \* the clock read by date.today() / datetime.now()
    ticks,            \* number of clock advances so far
    applied,          \* TRUE once some non-empty apply has succeeded
    call              \* the last apply call: its batch, clock and outcome

vars == <<template, schema, parameters, resolved_params, query, store,
          today, ticks, applied, call>>

---------------------------------------------------------------------------
(* Bounds *)

MaxBatch == 2
MaxTicks == 1

---------------------------------------------------------------------------
(* Python values *)

Str(s) == [t |-> "str", s |-> s]
Num(n) == [t |-> "num", n |-> n]
List(l) == [t |-> "list", l |-> l]
Dict(d) == [t |-> "dict", d |-> d]

EmptyDict == << >>

IsStr(v) == v.t = "str"
IsList(v) == v.t = "list"
IsDict(v) == v.t = "dict"
IsNum(v) == v.t = "num"

\* the strings of the model's universe that begin with "d_"
DPrefixed ==
    {"d_now", "d_yesterday", "d_today", "d_this_week", "d_this_month",
     "d_this_year", "d_last_week", "d_last_month", "d_last_year",
     "d_last_7_days", "d_last_14_days", "d_last_30_days", "d_last_60_days",
     "d_last_90_days", "d_last_12_months", "d_bogus"}

\* str.startswith("d_")
startswith_d(s) == s \in DPrefixed

\* the strings of the universe that float() parses
FloatStrings == {"123", "1"}

\* the strings of the universe that dateutil.parser.parse accepts
DateStrings == {"2024-03-15", "2024-03-01"}

\* the strings of the universe that the regex "[0-9]+" fully matches
DigitStrings == {"123", "1"}

\* str(value)
str(v) ==
    CASE IsStr(v) -> v.s
      [] IsNum(v) -> ToString(v.n)
      [] IsList(v) -> "<list>"
      [] IsDict(v) -> "<dict>"

SeqToSet(s) == {s[i] : i \in DOMAIN s}

---------------------------------------------------------------------------
(* datetime.date / datetime.datetime / timedelta *)

IsLeap(y) == (y % 4 = 0 /\ y % 100 # 0) \/ y % 400 = 0

DaysInMonth(y, m) ==
    IF m = 2 THEN (IF IsLeap(y) THEN 29 ELSE 28)
    ELSE IF m \in {4, 6, 9, 11} THEN 30 ELSE 31

\* the days of the year before the first of month m
DaysBeforeMonth(y, m) ==
    <<0, 31, 59, 90, 120, 151, 181, 212, 243, 273, 304, 334>>[m]
        + (IF m > 2 /\ IsLeap(y) THEN 1 ELSE 0)

DaysInYear(y) == IF IsLeap(y) THEN 366 ELSE 365

\* the calendar starts on 1 Jan 2023, a Sunday
RECURSIVE DaysBeforeYear(_)
DaysBeforeYear(y) ==
    IF y = 2023 THEN 0 ELSE DaysBeforeYear(y - 1) + DaysInYear(y - 1)

\* days since 1 Jan 2023
toordinal(d) == DaysBeforeYear(d.year) + DaysBeforeMonth(d.year, d.month) + d.day - 1

RECURSIVE YearOf(_, _)
YearOf(o, y) == IF o < DaysInYear(y) THEN y ELSE YearOf(o - DaysInYear(y), y + 1)

fromordinal(o) ==
    LET y == YearOf(o, 2023)
        doy == o - DaysBeforeYear(y)
        m == CHOOSE mm \in 1..12 :
                 /\ DaysBeforeMonth(y, mm) <= doy
                 /\ doy < DaysBeforeMonth(y, mm) + DaysInMonth(y, mm)
    IN [year |-> y, month |-> m, day |-> doy - DaysBeforeMonth(y, m) + 1,
        time |-> FALSE]

\* date - timedelta(days=n); the time of day, when there is one, is kept
minus_days(d, n) == [fromordinal(toordinal(d) - n) EXCEPT !.time = d.time]
plus_days(d, n) == [fromordinal(toordinal(d) + n) EXCEPT !.time = d.time]

isoweekday(d) == ((toordinal(d) + 6) % 7) + 1

\* datetime.now(): the clock's date with a time of day
now_of(d) == [d EXCEPT !.time = TRUE]

Pad2(n) == IF n < 10 THEN "0" \o ToString(n) ELSE ToString(n)

\* strftime: a date has midnight as its time of day, now() has the
\* clock's time of day (held at 12:34:56 in the model)
strftime(d, fmt) ==
    LET ymd == ToString(d.year) \o "-" \o Pad2(d.month) \o "-" \o Pad2(d.day)
        hm == IF d.time THEN "12:34" ELSE "00:00"
        s == IF d.time THEN ":56" ELSE ":00"
    IN CASE fmt = "%Y-%m-%d" -> ymd
         [] fmt = "%Y-%m-%d %H:%M" -> ymd \o " " \o hm
         [] fmt = "%Y-%m-%d %H:%M:%S" -> ymd \o " " \o hm \o s

---------------------------------------------------------------------------
(* Results of calls that may raise *)

Ok(v) == [err |-> "", v |-> v]
Raise(e) == [err |-> e, v |-> Str("")]

---------------------------------------------------------------------------
(* Date macro resolver *)

SingleFmt ==
    [x \in {"date", "datetime-local", "datetime-with-seconds"} |->
        CASE x = "date" -> "%Y-%m-%d"
          [] x = "datetime-local" -> "%Y-%m-%d %H:%M"
          [] x = "datetime-with-seconds" -> "%Y-%m-%d %H:%M:%S"]

RangeFmt ==
    [x \in {"date-range", "datetime-range", "datetime-range-with-seconds"} |->
        CASE x = "date-range" -> "%Y-%m-%d"
          [] x = "datetime-range" -> "%Y-%m-%d %H:%M"
          [] x = "datetime-range-with-seconds" -> "%Y-%m-%d %H:%M:%S"]

_make_dynamic_date(param_type, value, clock) ==
    IF param_type \notin DOMAIN SingleFmt THEN Raise("InvalidParameter")
    ELSE LET fmt == SingleFmt[param_type]
             now == now_of(clock)
         IN CASE value = "d_now" -> Ok(Str(strftime(now, fmt)))
              [] value = "d_yesterday" -> Ok(Str(strftime(minus_days(now, 1), fmt)))
              [] OTHER -> Raise("InvalidParameter")

Pair(start, end) == [err |-> "", start |-> start, end |-> end]
PairRaise(e) == [err |-> e, start |-> fromordinal(0), end |-> fromordinal(0)]

_last_n_days(n_days, td, now) == Pair(minus_days(td, n_days), now)

_last_week(td, now) ==
    LET last_week_start == minus_days(td, (isoweekday(td) % 7) + 7)
    IN Pair(last_week_start, plus_days(last_week_start, 6))

\* today.day is an int: calling it raises TypeError
_last_month(td, now) == PairRaise("TypeError")

\* today.year is an int: calling it raises TypeError
_last_year(td, now) == PairRaise("TypeError")

_dynamic_date_range_keys ==
    {"d_today", "d_yesterday", "d_this_week", "d_this_month", "d_this_year",
     "d_last_week", "d_last_month", "d_last_year", "d_last_7_days",
     "d_last_14_days", "d_last_30_days", "d_last_60_days", "d_last_90_days",
     "d_last_12_months"}

\* _dynamic_date_range[value](today, now)
_dynamic_date_range(value, td, now) ==
    CASE value = "d_today" -> _last_n_days(1, td, now)
      [] value = "d_yesterday" -> Pair(minus_days(td, 1), minus_days(td, 1))
      [] value = "d_this_week" -> Pair(minus_days(td, isoweekday(td) % 7), now)
      [] value = "d_this_month" -> Pair([td EXCEPT !.day = 1], now)
      [] value = "d_this_year" -> Pair([td EXCEPT !.month = 1, !.day = 1], now)
      [] value = "d_last_week" -> _last_week(td, now)
      [] value = "d_last_month" -> _last_month(td, now)
      [] value = "d_last_year" -> _last_year(td, now)
      [] value = "d_last_7_days" -> _last_n_days(7, td, now)
      [] value = "d_last_14_days" -> _last_n_days(14, td, now)
      [] value = "d_last_30_days" -> _last_n_days(30, td, now)
      [] value = "d_last_60_days" -> _last_n_days(60, td, now)
      [] value = "d_last_90_days" -> _last_n_days(90, td, now)
      \* today.year is an int: calling it raises TypeError
      [] value = "d_last_12_months" -> PairRaise("TypeError")

_make_dynamic_date_range(param_type, value, clock) ==
    IF value \notin _dynamic_date_range_keys THEN Raise("InvalidParameter")
    ELSE LET r == _dynamic_date_range(value, clock, now_of(clock))
         IN IF r.err # "" THEN Raise(r.err)
            ELSE IF param_type \notin DOMAIN RangeFmt THEN Raise("InvalidParameter")
            ELSE LET fmt == RangeFmt[param_type]
                 IN Ok(Dict([start |-> strftime(r.start, fmt),
                             end |-> strftime(r.end, fmt)]))

---------------------------------------------------------------------------
(* List joiner *)

\* dict.get(key, default) on a definition or an options object
get(d, key, default) == IF key \in DOMAIN d THEN d[key] ELSE default

RECURSIVE JoinFrom(_, _, _, _, _)
JoinFrom(value, i, separator, prefix, suffix) ==
    IF i > Len(value) THEN ""
    ELSE (IF i = 1 THEN "" ELSE separator) \o prefix \o value[i] \o suffix
         \o JoinFrom(value, i + 1, separator, prefix, suffix)

join_parameter_list_values(definition, value) ==
    LET multi_values_options == get(definition, "multiValuesOptions", EmptyDict)
        separator == get(multi_values_options, "separator", ",")
        prefix == get(multi_values_options, "prefix", "")
        suffix == get(multi_values_options, "suffix", "")
    IN JoinFrom(value, 1, separator, prefix, suffix)

---------------------------------------------------------------------------
(* Parameter resolver *)

\* next((d for d in schema if d["name"] == key), default): the index of the
\* first definition with that name, 0 when there is none
FirstIndex(sch, key) ==
    IF \E i \in DOMAIN sch : sch[i].name = key
    THEN CHOOSE i \in DOMAIN sch :
             /\ sch[i].name = key
             /\ \A j \in DOMAIN sch : sch[j].name = key => i <= j
    ELSE 0

SingleKinds == {"date", "datetime-local", "datetime-with-seconds"}
RangeKinds == {"date-range", "datetime-range", "datetime-range-with-seconds"}

\* the body of the loop of resolve_parameters for one (key, value)
resolve_one(key, value, sch, clock) ==
    LET i == FirstIndex(sch, key)
        definition == IF i = 0 THEN EmptyDict ELSE sch[i]
        param_type == get(definition, "type", "None")
    IN IF IsList(value)
       THEN Ok(Str(join_parameter_list_values(definition, value.l)))
       ELSE IF IsStr(value) /\ startswith_d(value.s) /\ param_type \in SingleKinds
       THEN _make_dynamic_date(param_type, value.s, clock)
       ELSE IF IsStr(value) /\ startswith_d(value.s) /\ param_type \in RangeKinds
       THEN _make_dynamic_date_range(param_type, value.s, clock)
       ELSE Ok(value)

\* resolve_parameters: errs is empty when every key resolves, and map is
\* then the result; otherwise the loop ends at the first key, in the order
\* of the caller's dict, whose resolution raises, and errs holds the error
\* of each key that can be that first one
resolve_parameters(params, sch, clock) ==
    LET r == [k \in DOMAIN params |-> resolve_one(k, params[k], sch, clock)]
        bad == {k \in DOMAIN params : r[k].err # ""}
    IN [errs |-> {r[k].err : k \in bad},
        map |-> IF bad = {} THEN [k \in DOMAIN params |-> r[k].v] ELSE EmptyDict]

---------------------------------------------------------------------------
(* Dropdown lookup *)

\* str.lower() on the column names of the universe
lower(c) ==
    CASE c = "Name" -> "name"
      [] c = "Value" -> "value"
      [] c = "City" -> "city"
      [] OTHER -> c

\* {k.lower(): v for k, v in row.items()}
lower_keys(row) ==
    [k \in {lower(c) : c \in DOMAIN row} |->
        row[CHOOSE c \in DOMAIN row : lower(c) = k]]

_pluck_name_and_value(default_column, row) ==
    LET lrow == lower_keys(row)
        name_column == IF "name" \in DOMAIN lrow THEN "name" ELSE lower(default_column)
        value_column == IF "value" \in DOMAIN lrow THEN "value" ELSE lower(default_column)
    IN [name |-> lrow[name_column], value |-> str(lrow[value_column])]

\* _load_result: the query's result data, "Detached" when the query has no
\* data source, "Exception" when the lookup of the query fails
_load_result(query_id, st) ==
    IF query_id \notin DOMAIN st THEN [err |-> "Exception", data |-> EmptyDict]
    ELSE IF st[query_id].data_source THEN [err |-> "", data |-> st[query_id].data]
    ELSE [err |-> "Detached", data |-> EmptyDict]

dropdown_values(query_id, st) ==
    LET r == _load_result(query_id, st)
    IN IF r.err # "" THEN [err |-> r.err, values |-> << >>]
       ELSE LET first_column == r.data.columns[1].name
            IN [err |-> "",
                values |-> [i \in DOMAIN r.data.rows |->
                               _pluck_name_and_value(first_column, r.data.rows[i])]]

---------------------------------------------------------------------------
(* Schema validator.  A validator returns "True" or "False", or raises:   *)
(* "Exception" for any exception but the detached one, "Detached" for     *)
(* QueryDetachedFromDataSourceError.                                      *)

Bool(b) == IF b THEN "True" ELSE "False"

_is_number(value) ==
    IF IsNum(value) THEN "True"
    ELSE IF IsStr(value) /\ value.s \in FloatStrings THEN "True"
    ELSE "Exception"

\* re.compile(regex).fullmatch(value): "[0-9]+" is the valid pattern of the
\* universe, "(" the malformed one (re.error is caught here)
_is_regex_pattern(value, regex) ==
    IF regex = "(" THEN "False"
    ELSE IF ~IsStr(value) \/ regex = "None" THEN "Exception"
    ELSE Bool(regex = "[0-9]+" /\ value.s \in DigitStrings)

\* _is_date applied to a Python string
_is_date_str(s) ==
    IF startswith_d(s) THEN "True"
    ELSE IF s \in DateStrings THEN "True"
    ELSE "Exception"

_is_date(value) ==
    IF IsStr(value) THEN _is_date_str(value.s) ELSE "Exception"

_is_date_range(obj) ==
    IF IsStr(obj) /\ startswith_d(obj.s) THEN "True"
    ELSE IF ~IsDict(obj) \/ "start" \notin DOMAIN obj.d THEN "Exception"
    ELSE IF _is_date_str(obj.d["start"]) # "True" THEN _is_date_str(obj.d["start"])
    ELSE IF "end" \notin DOMAIN obj.d THEN "Exception"
    ELSE _is_date_str(obj.d["end"])

\* Options(l) is a list of option strings, NoOptions is None
Options(l) == [none |-> FALSE, l |-> l]
NoOptions == [none |-> TRUE, l |-> << >>]

_is_value_within_options(value, dropdown_options, allow_list) ==
    IF IsList(value)
    THEN IF ~allow_list THEN "False"
         ELSE IF dropdown_options.none THEN "Exception"
         ELSE Bool(SeqToSet(value.l) \subseteq SeqToSet(dropdown_options.l))
    ELSE IF dropdown_options.none THEN "Exception"
         ELSE Bool(str(value) \in SeqToSet(dropdown_options.l))

\* enumOptions is EnumStr(lines), a string given by its lines, or
\* EnumList(l), a list of strings
EnumStr(lines) == [t |-> "str", lines |-> lines]
EnumList(l) == [t |-> "list", lines |-> l]

\* enum_options.split("\n")
split_newline(enum_options) == enum_options.lines

\* validators.get(definition["type"], lambda x: False)(value)
validate(definition, value, st) ==
    LET type == definition.type
        enum_options ==
            IF "enumOptions" \notin DOMAIN definition THEN NoOptions
            ELSE IF definition.enumOptions.t = "str"
            THEN Options(split_newline(definition.enumOptions))
            ELSE Options(definition.enumOptions.lines)
        \* query ids are positive; 0 stands for None
        query_id == get(definition, "queryId", 0)
        regex == get(definition, "regex", "None")
        allow_multiple_values == "multiValuesOptions" \in DOMAIN definition
    IN CASE type = "text" -> Bool(IsStr(value))
         [] type = "text-pattern" -> _is_regex_pattern(value, regex)
         [] type = "number" -> _is_number(value)
         [] type = "enum" ->
                _is_value_within_options(value, enum_options, allow_multiple_values)
         [] type = "query" ->
                LET dv == dropdown_values(query_id, st)
                IN IF dv.err # "" THEN dv.err
                   ELSE _is_value_within_options(
                            value,
                            Options([i \in DOMAIN dv.values |-> dv.values[i].value]),
                            allow_multiple_values)
         [] type \in SingleKinds -> _is_date(value)
         [] type \in RangeKinds -> _is_date_range(value)
         [] OTHER -> "False"

\* _valid with the detached error caught like any other exception
_valid_downgrade(name, value) ==
    IF schema = << >> THEN "True"
    ELSE LET i == FirstIndex(schema, name)
         IN IF i = 0 THEN "False"
            ELSE LET r == validate(schema[i], value, store)
                 IN IF r \in {"Detached", "Exception"} THEN "False" ELSE r

\* _valid accepting a name the schema does not define
_valid_undefined_ok(name, value) ==
    IF schema = << >> THEN "True"
    ELSE LET i == FirstIndex(schema, name)
         IN IF i = 0 THEN "True"
            ELSE LET r == validate(schema[i], value, store)
                 IN IF r = "Detached" THEN "Detached"
                    ELSE IF r = "Exception" THEN "False"
                    ELSE r

\* _valid without the test for an empty schema
_valid_no_shortcut(name, value) ==
    LET i == FirstIndex(schema, name)
    IN IF i = 0 THEN "False"
       ELSE LET r == validate(schema[i], value, store)
            IN IF r = "Detached" THEN "Detached"
               ELSE IF r = "Exception" THEN "False"
               ELSE r

\* ParameterizedQuery._valid: "True", "False", or "Detached" when
\* QueryDetachedFromDataSourceError is re-raised
_valid(name, value) ==
    IF schema = << >> THEN "True"
    ELSE LET i == FirstIndex(schema, name)
         IN IF i = 0 THEN "False"
            ELSE LET r == validate(schema[i], value, store)
                 IN IF r = "Detached" THEN "Detached"
                    ELSE IF r = "Exception" THEN "False"
                    ELSE r

---------------------------------------------------------------------------
(* Placeholder extractor.  A template is its pystache parse tree: a        *)
(* sequence of nodes Escape(key), Section(key, parsed) and Literal(s).     *)

Escape(key) == [type |-> "escape", key |-> key]
Section(key, parsed) == [type |-> "section", key |-> key, parsed |-> parsed]
Literal(s) == [type |-> "literal", s |-> s]

\* funcy.distinct: the first occurrences, in order
RECURSIVE distinct(_)
distinct(keys) ==
    IF keys = << >> THEN << >>
    ELSE LET front == distinct(SubSeq(keys, 1, Len(keys) - 1))
             last == keys[Len(keys)]
         IN IF last \in SeqToSet(front) THEN front ELSE Append(front, last)

RECURSIVE _collect_keys(_)
_collect_keys(nodes) ==
    IF nodes = << >> THEN << >>
    ELSE LET node == Head(nodes)
             here == CASE node.type = "escape" -> <<node.key>>
                       [] node.type = "section" ->
                              <<node.key>> \o distinct(_collect_keys(node.parsed))
                       [] OTHER -> << >>
         IN here \o _collect_keys(Tail(nodes))

_collect_key_names(nodes) == distinct(_collect_keys(nodes))

_collect_query_parameters(tmpl) == _collect_key_names(tmpl)

\* _parameter_names emitting the outer key of a nested mapping
_names_of_outer(key, value) == {key}

\* the names one (key, value) pair contributes in _parameter_names
_names_of(key, value) ==
    IF IsDict(value)
    THEN {key \o "." \o inner_key : inner_key \in DOMAIN value.d}
    ELSE {key}

\* set(_parameter_names(parameter_values))
_parameter_names(parameter_values) ==
    UNION {_names_of(key, parameter_values[key]) : key \in DOMAIN parameter_values}

missing_params ==
    (SeqToSet(_collect_query_parameters(template))
        \ _parameter_names(parameters))
        \ _parameter_names(resolved_params)

\* is_safe: no definition of the schema has type text
is_safe == ~ \E i \in DOMAIN schema : schema[i].type = "text"

text == query

---------------------------------------------------------------------------
(* The external renderer mustache_render(template, bindings)               *)

\* the binding a (possibly dotted) key names, Str("") when there is none
Lookup(bindings, key) ==
    IF key \in DOMAIN bindings THEN str(bindings[key])
    ELSE IF \E o \in DOMAIN bindings :
                /\ IsDict(bindings[o])
                /\ \E i \in DOMAIN bindings[o].d : key = o \o "." \o i
    THEN LET o == CHOOSE o \in DOMAIN bindings :
                      /\ IsDict(bindings[o])
                      /\ \E i \in DOMAIN bindings[o].d : key = o \o "." \o i
             i == CHOOSE i \in DOMAIN bindings[o].d : key = o \o "." \o i
         IN bindings[o].d[i]
    ELSE ""

RECURSIVE mustache_render(_, _)
mustache_render(nodes, bindings) ==
    IF nodes = << >> THEN ""
    ELSE LET node == Head(nodes)
             here == CASE node.type = "escape" -> Lookup(bindings, node.key)
                       [] node.type = "section" ->
                              IF node.key \in DOMAIN bindings
                              THEN mustache_render(node.parsed, bindings)
                              ELSE ""
                       [] OTHER -> node.s
         IN here \o mustache_render(Tail(nodes), bindings)

\* the source text of a template, the initial value of self.query
RECURSIVE template_text(_)
template_text(nodes) ==
    IF nodes = << >> THEN ""
    ELSE LET node == Head(nodes)
             here == CASE node.type = "escape" -> "{{" \o node.key \o "}}"
                       [] node.type = "section" ->
                              "{{#" \o node.key \o "}}" \o template_text(node.parsed)
                              \o "{{/" \o node.key \o "}}"
                       [] OTHER -> node.s
         IN here \o template_text(Tail(nodes))

---------------------------------------------------------------------------
(* Controllers and callers' inputs *)

Saturday == [year |-> 2024, month |-> 3, day |-> 16, time |-> FALSE]

\* no schema: template "{{a}} {{b.c}}"
PlainConfig ==
    [template |-> <<Escape("a"), Literal(" "), Escape("b.c")>>,
     schema |-> << >>,
     store |-> << >>,
     inputs |-> [a |-> {Num(1), Str("d_last_month"), List(<<"x", "y">>)},
                 b |-> {Dict([c |-> "x"]), Str("x"),
                        Dict([start |-> "2024-03-15", end |-> "d_now"])}]]

TextConfig ==
    [template |-> <<Escape("n"), Literal(" "),
                    Section("t", <<Escape("p"), Escape("n")>>), Escape("t")>>,
     schema |-> <<[name |-> "n", type |-> "number"],
                  [name |-> "t", type |-> "text"]>>,
     store |-> << >>,
     inputs |-> [n |-> {Num(1), Str("123"), Str("12a")},
                 t |-> {Str("d_now"), Num(1)}]]

\* a pattern, a malformed regex, a pattern without regex, an unrecognized
\* kind, an enum without options, a name defined twice and a name ("u") the
\* schema does not define
OddConfig ==
    [template |-> <<Escape("p"), Escape("k")>>,
     schema |-> <<[name |-> "p", type |-> "text-pattern", regex |-> "[0-9]+"],
                  [name |-> "b", type |-> "text-pattern", regex |-> "("],
                  [name |-> "k", type |-> "json"],
                  [name |-> "g", type |-> "enum"],
                  [name |-> "x", type |-> "text-pattern"],
                  [name |-> "p", type |-> "text"]>>,
     store |-> << >>,
     inputs |-> [p |-> {Str("123"), Str("12a"), Num(1)},
                 b |-> {Str("123")},
                 k |-> {Str("x")},
                 g |-> {Str("a")},
                 x |-> {Str("123")},
                 u |-> {Str("x")}]]

EnumConfig ==
    [template |-> <<Section("e", <<Escape("f")>>), Literal(";"), Escape("e")>>,
     schema |-> <<[name |-> "e", type |-> "enum",
                   enumOptions |-> EnumStr(<<"a", "b", "c">>),
                   multiValuesOptions |->
                       [separator |-> "|", prefix |-> "[", suffix |-> "]"]],
                  [name |-> "f", type |-> "enum",
                   enumOptions |-> EnumList(<<"a", "1">>)]>>,
     store |-> << >>,
     inputs |-> [e |-> {Str("a"), Str("d"), List(<<"a", "b">>), List(<<"a", "d">>)},
                 f |-> {Str("a"), Num(1), List(<<"a">>)}]]

\* the Query table: query 1 with a data source and a one-column result,
\* with name and value columns, without a data source, or no query 1
Stores ==
    {[i \in {1} |-> [data_source |-> TRUE,
                     data |-> [columns |-> <<[name |-> "City"]>>,
                               rows |-> <<[City |-> Str("a")], [City |-> Str("b")]>>]]],
     [i \in {1} |-> [data_source |-> TRUE,
                     data |-> [columns |-> <<[name |-> "Name"], [name |-> "Value"]>>,
                               rows |-> <<[Name |-> Str("one"), Value |-> Num(1)]>>]]],
     [i \in {1} |-> [data_source |-> FALSE, data |-> EmptyDict]],
     << >>}

QueryConfig(st) ==
    [template |-> <<Escape("q"), Literal(";"), Escape("n")>>,
     schema |-> <<[name |-> "q", type |-> "query", queryId |-> 1,
                   multiValuesOptions |-> EmptyDict],
                  [name |-> "n", type |-> "number"]>>,
     store |-> st,
     inputs |-> [q |-> {Str("a"), Num(1), List(<<"a", "b">>)},
                 n |-> {Num(1), Str("x")}]]

RangeDict == Dict([start |-> "2024-03-01", end |-> "d_now"])

\* a single date kind
ShapeConfig ==
    [template |-> <<Escape("d")>>,
     schema |-> <<[name |-> "d", type |-> "date"]>>,
     store |-> << >>,
     inputs |-> [d |-> {Str("d_yesterday"), Str("d_today"), Str("2024-03-15"),
                        Str("nope"), RangeDict}]]

\* a single kind and a range kind, with some of the tokens
DateConfig(single, range, singles, tokens) ==
    [template |-> <<Escape("d"), Literal(" "), Escape("r.start"), Literal(" "),
                    Escape("r.end")>>,
     schema |-> <<[name |-> "d", type |-> single], [name |-> "r", type |-> range]>>,
     store |-> << >>,
     inputs |-> [d |-> {Str(tok) : tok \in singles},
                 r |-> {Str(tok) : tok \in tokens}
                          \cup {Dict([start |-> "nope", end |-> "d_now"])}]]

Configs ==
    {PlainConfig, TextConfig, OddConfig, EnumConfig, ShapeConfig}
    \cup {QueryConfig(st) : st \in Stores}
    \cup {DateConfig("date", "date-range", {"d_now", "d_bogus"},
                     {"d_today", "d_yesterday", "d_last_month"}),
          DateConfig("datetime-local", "datetime-range", {"d_now"},
                     {"d_this_week", "d_this_month", "d_last_year"}),
          DateConfig("datetime-with-seconds", "datetime-range-with-seconds", {"d_now"},
                     {"d_this_year", "d_last_week", "d_last_12_months"}),
          DateConfig("date", "datetime-range", {"d_now"},
                     {"d_last_7_days", "d_last_14_days", "d_last_30_days"}),
          DateConfig("datetime-local", "date-range", {"d_now"},
                     {"d_last_60_days", "d_last_90_days"})}

\* the values a caller of this controller supplies, per key
inputs == (CHOOSE c \in Configs : c.template = template /\ c.schema = schema).inputs

\* the parameter maps over the keys ks that a caller can supply
RECURSIVE MapsOver(_)
MapsOver(ks) ==
    IF ks = {} THEN {EmptyDict}
    ELSE LET k == CHOOSE x \in ks : TRUE
         IN {[j \in DOMAIN m \cup {k} |-> IF j = k THEN v ELSE m[j]] :
                m \in MapsOver(ks \ {k}), v \in inputs[k]}

Batches ==
    UNION {MapsOver(ks) :
              ks \in {s \in SUBSET DOMAIN inputs : Cardinality(s) <= MaxBatch}}

---------------------------------------------------------------------------
(* ParameterizedQuery *)

NoCall ==
    [batch |-> EmptyDict, at |-> Saturday, outcome |-> "none",
     stage |-> "", names |-> {}]

\* __init__
Init ==
    \E c \in Configs :
        /\ template = c.template
        /\ schema = c.schema
        /\ store = c.store
        /\ parameters = EmptyDict
        /\ resolved_params = EmptyDict
        /\ query = template_text(c.template)
        /\ today = Saturday
        /\ ticks = 0
        /\ applied = FALSE
        /\ call = NoCall

\* dict.update
update(old, new) ==
    [k \in DOMAIN old \cup DOMAIN new |-> IF k \in DOMAIN new THEN new[k] ELSE old[k]]

\* validation that stops at the first invalid key
invalid_parameter_names_first(batch) ==
    LET all == {key \in DOMAIN batch : _valid(key, batch[key]) = "False"}
    IN IF all = {} THEN {} ELSE {CHOOSE key \in all : TRUE}

\* the list comprehension of apply, as the set of its names
invalid_parameter_names(batch) ==
    {key \in DOMAIN batch : _valid(key, batch[key]) = "False"}

\* the comprehension meets a key whose validation re-raises the detached error
raises_detached(batch) ==
    \E key \in DOMAIN batch : _valid(key, batch[key]) = "Detached"

\* a rejected batch whose valid keys are merged all the same
Rejected_partial(batch, outcome, names) ==
    /\ call' = [batch |-> batch, at |-> today, outcome |-> outcome,
                stage |-> "validation", names |-> names]
    /\ parameters' =
           update(parameters,
                  [k \in {j \in DOMAIN batch : _valid(j, batch[j]) = "True"} |->
                      batch[k]])
    /\ UNCHANGED <<resolved_params, query, applied>>

\* apply leaves by an exception raised while validating
Rejected(batch, outcome, names) ==
    /\ call' = [batch |-> batch, at |-> today, outcome |-> outcome,
                stage |-> "validation", names |-> names]
    /\ UNCHANGED <<parameters, resolved_params, query, applied>>

\* the else branch of apply
Accepted(batch) ==
    LET r == resolve_parameters(batch, schema, today)
    IN /\ parameters' = update(parameters, batch)
       /\ IF r.errs = {}
          THEN /\ resolved_params' = r.map
               /\ query' = mustache_render(template, r.map)
               /\ applied' = (applied \/ batch # EmptyDict)
               /\ call' = [batch |-> batch, at |-> today, outcome |-> "ok",
                           stage |-> "", names |-> {}]
          ELSE /\ \E e \in r.errs :
                      call' = [batch |-> batch, at |-> today, outcome |-> e,
                               stage |-> "resolution", names |-> {}]
               /\ UNCHANGED <<resolved_params, query, applied>>

Apply(batch) ==
    /\ IF raises_detached(batch) THEN Rejected(batch, "Detached", {})
       ELSE IF invalid_parameter_names(batch) # {}
       THEN Rejected(batch, "InvalidParameter", invalid_parameter_names(batch))
       ELSE Accepted(batch)
    /\ UNCHANGED <<template, schema, store, today, ticks>>

\* the clock moves to the next day
Tick ==
    /\ ticks < MaxTicks
    /\ today' = plus_days(today, 1)
    /\ ticks' = ticks + 1
    /\ UNCHANGED <<template, schema, parameters, resolved_params, query, store,
                   applied, call>>

Next ==
    \/ \E batch \in Batches : Apply(batch)
    \/ Tick

Spec == Init /\ [][Next]_vars

TypeOK ==
    /\ call.outcome \in {"none", "ok", "InvalidParameter", "Detached", "TypeError"}
    /\ DOMAIN parameters \subseteq DOMAIN inputs
    /\ DOMAIN resolved_params \subseteq DOMAIN parameters

---------------------------------------------------------------------------
(* Properties *)

Controller == <<parameters, resolved_params, query>>

Called == call.outcome # "none"

\* the schema entry of a key, EmptyDict when the schema has none
DefinitionOf(key) ==
    IF \E i \in DOMAIN schema : schema[i].name = key
    THEN schema[FirstIndex(schema, key)]
    ELSE EmptyDict

\* the batch holds a key of kind query whose query has no data source
HasDetachedKey(batch) ==
    \E key \in DOMAIN batch :
        LET d == DefinitionOf(key)
        IN /\ d # EmptyDict
           /\ d.type = "query"
           /\ "queryId" \in DOMAIN d
           /\ d.queryId \in DOMAIN store
           /\ ~store[d.queryId].data_source

FailsValidation(batch) ==
    {key \in DOMAIN batch : _valid(key, batch[key]) # "True"}

\* C1 as stated: with a non-empty schema, an apply whose batch has a pair
\* that fails validation raises InvalidParameter and leaves parameters,
\* resolved_params and text as they were.
C1_Original ==
    [][(schema # << >> /\ call'.outcome # "none"
            /\ \E key \in DOMAIN call'.batch :
                   _valid(key, call'.batch[key]) = "False")
        => (call'.outcome = "InvalidParameter" /\ UNCHANGED Controller)]_vars

\* C1 amended: with a non-empty schema, an apply whose batch has a pair that
\* fails validation raises InvalidParameter, or the detached-source error
\* when the batch also holds a query-kind key whose query has no data
\* source; either way parameters, resolved_params and text are unchanged
\* and no valid key of the batch is merged.
C1_Atomic ==
    [][(schema # << >> /\ call'.outcome # "none"
            /\ \E key \in DOMAIN call'.batch :
                   _valid(key, call'.batch[key]) = "False")
        => /\ call'.outcome =
                  IF HasDetachedKey(call'.batch) THEN "Detached"
                  ELSE "InvalidParameter"
           /\ UNCHANGED Controller]_vars

C1_Witness ==
    /\ schema # << >>
    /\ call.outcome = "InvalidParameter"
    /\ \E key \in DOMAIN call.batch : _valid(key, call.batch[key]) = "True"
    /\ \E key \in DOMAIN call.batch : _valid(key, call.batch[key]) = "False"
    /\ parameters # EmptyDict
    /\ \E key \in DOMAIN call.batch : key \notin DOMAIN parameters

\* C2: after a successful apply, resolved_params is the resolution of the
\* whole cumulative parameter map and text is the template rendered with it.
C2_Cumulative ==
    call.outcome = "ok" =>
        LET r == resolve_parameters(parameters, schema, call.at)
        IN r.errs = {} =>
               /\ resolved_params = r.map
               /\ query = mustache_render(template, r.map)

\* C3: once a non-empty apply has succeeded, apply of the empty map, with the
\* clock held, succeeds and changes neither text, resolved_params nor the
\* parameter map.
C3_EmptyIdempotent ==
    [][(applied /\ call'.outcome # "none" /\ call'.batch = EmptyDict
            /\ today' = today)
        => (call'.outcome = "ok" /\ UNCHANGED Controller)]_vars

\* C4: the names of an InvalidParameter raised by validation are exactly the
\* keys of the batch whose value fails validation.
C4_CompleteNames ==
    (call.outcome = "InvalidParameter" /\ call.stage = "validation")
        => call.names = FailsValidation(call.batch)

C4_Witness ==
    /\ call.outcome = "InvalidParameter"
    /\ call.stage = "validation"
    /\ Cardinality(call.names) >= 2

\* C5: an apply whose batch holds a query-kind key whose query has no data
\* source raises the detached-source error, whatever the value and the
\* other keys, and leaves the controller unchanged.
C5_Detached ==
    [][(call'.outcome # "none" /\ HasDetachedKey(call'.batch))
        => (call'.outcome = "Detached" /\ UNCHANGED Controller)]_vars

C5_Witness ==
    /\ call.outcome = "Detached"
    /\ "n" \in DOMAIN call.batch
    /\ _valid("n", call.batch["n"]) = "False"
    /\ IsList(call.batch["q"])
    /\ parameters # EmptyDict

\* C6: with a non-empty schema, every key of the cumulative parameter map
\* names an entry of the schema and its value passes that entry's validator.
C6_LiveSet ==
    schema # << >> =>
        \A key \in DOMAIN parameters :
            /\ \E i \in DOMAIN schema : schema[i].name = key
            /\ validate(DefinitionOf(key), parameters[key], store) = "True"

C6_Witness ==
    /\ schema # << >>
    /\ parameters # EmptyDict
    /\ call.outcome = "InvalidParameter"
    /\ call.stage = "validation"
    /\ \E key \in DOMAIN call.batch : DefinitionOf(key) = EmptyDict

\* the placeholder names of a parse tree, as a set
RECURSIVE Placeholders(_)
Placeholders(nodes) ==
    UNION {CASE nodes[i].type = "escape" -> {nodes[i].key}
             [] nodes[i].type = "section" ->
                    {nodes[i].key} \cup Placeholders(nodes[i].parsed)
             [] OTHER -> {} : i \in DOMAIN nodes}

\* a parameter map declares the name: its key with a value that is no
\* mapping, or "outer.inner" for an inner key of a mapping
Declares(map, name) ==
    \E key \in DOMAIN map :
        IF IsDict(map[key])
        THEN \E inner \in DOMAIN map[key].d : name = key \o "." \o inner
        ELSE name = key

Unsupported(key, value) ==
    LET d == DefinitionOf(key)
    IN /\ IsStr(value) /\ startswith_d(value.s)
       /\ d # EmptyDict
       /\ \/ d.type \in SingleKinds /\ value.s \notin {"d_now", "d_yesterday"}
          \/ d.type \in RangeKinds /\ value.s \notin _dynamic_date_range_keys

\* C8: a batch that passed validation fails in resolution only for an
\* unsupported d_ token, with InvalidParameter; every supported range token
\* yields a {start, end} binding.
C8_OnlyResidual ==
    (Called /\ call.stage # "validation") =>
        /\ call.outcome # "ok" =>
               /\ call.outcome = "InvalidParameter"
               /\ \E key \in DOMAIN call.batch : Unsupported(key, call.batch[key])
        /\ call.outcome = "ok" =>
               \A key \in DOMAIN call.batch :
                   (IsStr(call.batch[key])
                       /\ call.batch[key].s \in _dynamic_date_range_keys
                       /\ DefinitionOf(key) # EmptyDict
                       /\ DefinitionOf(key).type \in RangeKinds)
                   => (IsDict(resolved_params[key])
                          /\ DOMAIN resolved_params[key].d = {"start", "end"})

\* C9: without a schema apply always succeeds, merges every key of the batch
\* and binds d_ strings unchanged.
C9_SchemaLess ==
    (schema = << >> /\ Called) =>
        /\ call.outcome = "ok"
        /\ \A key \in DOMAIN call.batch :
               /\ key \in DOMAIN parameters
               /\ parameters[key] = call.batch[key]
               /\ (IsStr(call.batch[key]) /\ startswith_d(call.batch[key].s))
                      => resolved_params[key] = call.batch[key]

C9_Witness ==
    /\ schema = << >>
    /\ call.outcome = "ok"
    /\ \E key \in DOMAIN call.batch :
           IsStr(call.batch[key]) /\ startswith_d(call.batch[key].s)
    /\ \E key \in DOMAIN call.batch : IsDict(call.batch[key])

\* C10: an apply that raises, for whatever reason, leaves the parameter map,
\* resolved_params and text as they were.
C10_NoPartialUpdate ==
    [][(call'.outcome \notin {"none", "ok"}) => UNCHANGED Controller]_vars

====
